---- MODULE Spec2Model ----
(***************************************************************************)
(* Model of the sensor health monitor EFISSensors (src/efis_sensors.py).   *)
(*                                                                         *)
(* Units.  Times are whole seconds, pressures whole hPa, altitudes whole   *)
(* metres and voltages tenths of a volt.  Python's None is the empty       *)
(* tuple for an optional number (a present number v is <<v>>) and the      *)
(* string "None" for an optional message.  The float arithmetic of the     *)
(* code is carried out on these integers, rounding towards minus infinity. *)
(* Where _smooth is exercised on its own (SpecEMA) its samples are          *)
(* pressures in hundredths of a hPa.                                        *)
(***************************************************************************)
EXTENDS Integers, Sequences, FiniteSets, TLC

VARIABLES
    SM,               \* self.SM, the smoothing factor, as the fraction SM[1] / SM[2]
    fault_mode,       \* self.fault_mode
    log_faults,       \* self.log_faults
    handlers,         \* the handlers of the logger "EFISensors" after _setup_logger
    live,             \* driver handle present: self.bno / self.mpr / self.ads1 (ch1, ch2) / self.ads2 (ch3, ch4)
    constructed,      \* FALSE when __init__ raised: there is no monitor object
    status,           \* self._status
    last,             \* self._last (the four sensors)
    pressure_smooth,  \* self._pressure_smooth
    altitude_smooth,  \* self._altitude_smooth
    analog_smooth,    \* self._analog_smooth
    clock,            \* the latest value time.time() has returned
    ncycles,          \* number of update_all calls made so far
    cyc,              \* history of the latest call: its clock readings, the readings
                      \* it consumed, the steps it ran, the escalations it made and
                      \* whether it raised
    ret,              \* what the latest accessor call returned to the caller, and what
                      \* the caller has made of it
    fold              \* the samples given to _smooth one after the other, and its results

vars == <<SM, fault_mode, log_faults, handlers, live, constructed, status, last, pressure_smooth,
          altitude_smooth, analog_smooth, clock, ncycles, cyc, ret, fold>>

----------------------------------------------------------------------------
(* Bounds of the model *)

MaxCycles == 2
\* the most drivers that raise or deliver an out-of-range value in one call
MaxFaulty == 1
\* the most samples folded by _smooth on its own
MaxFold == 3

----------------------------------------------------------------------------
(* Configuration (constructor arguments) *)

pressure_min == 800
pressure_max == 1100
alt_min == -300
alt_max == 6000
volt_min == 0
volt_max == 52
timeout == 2
\* smoothing_factor, as the fraction SM_NUM / SM_DEN
SM_NUM == 1
SM_DEN == 5

\* log_faults
LOG_FAULTS == TRUE

FaultModes == {"silent", "warn", "exception"}

Sensors == {"bno085", "mprls", "ads1015_1", "ads1015_2"}
Keys == Sensors \cup {"i2c"}
Channels == {"sensor1", "sensor2", "sensor3", "sensor4"}
SensorOrder == <<"bno085", "mprls", "ads1015_1", "ads1015_2">>

None == <<>>
Some(v) == <<v>>
NoError == "None"

----------------------------------------------------------------------------
(* Inputs: what the drivers and the clock deliver in one call *)

\* A driver read: raise = 0 when every property read of the block returns,
\* k > 0 when the k-th property read raises; v holds the values returned.
\* Skip stands for a block that is not executed.
Skip == [raise |-> -1, v |-> <<>>]
Reading(k, vals) == [raise |-> k, v |-> vals]

\* the reading of a healthy device: in range
Nominal(key) ==
    CASE key = "bno085" -> Reading(0, <<>>)
      [] key = "mprls" -> Reading(0, <<1000>>)
      [] OTHER -> Reading(0, <<volt_max, volt_max>>)

\* the other readings: a raise, or a value out of range
Faulty(key) ==
    CASE key = "bno085" -> {Reading(1, <<>>)}
      [] key = "mprls" -> {Reading(1, <<>>), Reading(0, <<pressure_max + 10>>)}
      [] key = "ads1015_1" -> {Reading(1, <<>>), Reading(0, <<volt_max + 1, volt_max>>)}
      [] OTHER -> {Reading(2, <<volt_max>>), Reading(0, <<volt_max, volt_max + 1>>)}

\* <<d1, d2>>: d1 seconds pass between the previous clock reading and
\* update_all's time.time(), d2 between that and _check_timeouts' time.time()
Elapse == {<<1, 0>>, <<timeout + 1, 0>>, <<1, timeout + 1>>}

----------------------------------------------------------------------------
(* Messages.  A message is the text of the f-string with its numeric       *)
(* fields left out.                                                        *)

DriverError == "io"
ReadErrorMsg(e) == "Read error: " \o e
PressureMsg == "Pressure out-of-range"
VoltageMsg(ch) ==
    CASE ch = "sensor1" -> "Sensor1 voltage out-of-range"
      [] ch = "sensor2" -> "Sensor2 voltage out-of-range"
      [] ch = "sensor3" -> "Sensor3 voltage out-of-range"
      [] ch = "sensor4" -> "Sensor4 voltage out-of-range"
AltitudeMsg == "Derived altitude out-of-range"
StaleMsg == "No update within timeout"
InitFailedMsg(key) ==
    CASE key = "bno085" -> "BNO085 init failed: io"
      [] key = "mprls" -> "MPRLS init failed: io"
      [] key = "ads1015_1" -> "ADS1015 #1 init failed: io"
      [] key = "ads1015_2" -> "ADS1015 #2 init failed: io"
\* str(SensorFault(log_msg))
SensorFaultMsg(key, message) == key \o ": " \o message

----------------------------------------------------------------------------
(* Pure helpers *)

\* a _smooth with the two weights exchanged
smooth_weights_swapped(prev, new) ==
    IF prev = None THEN new
    ELSE ((SM[2] - SM[1]) * new + SM[1] * prev[1]) \div SM[2]

\* _smooth: prev is optional, new is a number
smooth(prev, new) ==
    IF prev = None THEN new
    ELSE (SM[1] * new + (SM[2] - SM[1]) * prev[1]) \div SM[2]

\* 44330.0 * (1 - (p / 1013.25) ** 0.1903), tabulated in metres at the knots
\* below and interpolated linearly between them
AltTable ==
    << <<300, 9165>>, <<400, 7187>>, <<500, 5575>>, <<600, 4207>>, <<700, 3013>>,
       <<800, 1949>>, <<900, 989>>, <<1000, 111>>, <<1050, -302>>, <<1100, -698>>,
       <<1150, -1081>>, <<1200, -1450>> >>

AltitudeOf(p) ==
    LET n == Len(AltTable)
        q == IF p < AltTable[1][1] THEN AltTable[1][1]
             ELSE IF p > AltTable[n][1] THEN AltTable[n][1] ELSE p
        i == CHOOSE j \in 1..(n - 1) :
                 /\ AltTable[j][1] <= q
                 /\ (q < AltTable[j + 1][1] \/ (j = n - 1 /\ q = AltTable[n][1]))
        k0 == AltTable[i][1]
        a0 == AltTable[i][2]
        k1 == AltTable[i + 1][1]
        a1 == AltTable[i + 1][2]
    IN  a0 + ((a1 - a0) * (q - k0)) \div (k1 - k0)

InRange(lo, x, hi) == lo <= x /\ x <= hi

----------------------------------------------------------------------------
(* The monitor object as a record m, so that the steps of a method can be  *)
(* composed.  raised/exc: an exception is propagating and its text; trace: *)
(* the steps the call has executed; esc: the escalations it has made;      *)
(* console: what the call has written to stdout and stderr; logfile: the    *)
(* lines it has appended to the fault log file.                             *)

Self ==
    [status |-> status, last |-> last, pressure_smooth |-> pressure_smooth,
     altitude_smooth |-> altitude_smooth, analog_smooth |-> analog_smooth,
     raised |-> FALSE, exc |-> NoError, trace |-> <<>>, esc |-> <<>>,
     console |-> <<>>, logfile |-> <<>>]

Raise(m, e) == [m EXCEPT !.raised = TRUE, !.exc = e]
Caught(m) == [m EXCEPT !.raised = FALSE, !.exc = NoError]

\* _log: the record goes to every handler of the logger, whose level names
\* are ERROR (for FAULT) and WARNING (for WARN)
log(m, level, text) ==
    LET line == <<IF level = "WARN" THEN "WARNING" ELSE "ERROR", text>>
    IN  [m EXCEPT !.logfile = IF "file" \in handlers THEN Append(@, line) ELSE @,
                  !.console = IF "console" \in handlers THEN Append(@, <<"stderr">> \o line)
                              ELSE @]

\* _handle_fault and _handle_warn after the record update and before the
\* raise: the log line when log_faults, the print in warn mode
announce(m, level, key, message) ==
    LET m1 == IF log_faults THEN log(m, level, SensorFaultMsg(key, message)) ELSE m
    IN  IF fault_mode = "warn"
        THEN [m1 EXCEPT !.console =
                            Append(@, <<"stdout", "WARN", SensorFaultMsg(key, message)>>)]
        ELSE m1

\* _handle_fault that also forgets the last-success time of the device
handle_fault_clears_last(m, key, message) ==
    LET m0 == [m EXCEPT !.status[key] =
                            [status |-> "FAULT", last_update |-> None, error |-> message],
                        !.last = [s \in Sensors |-> IF s = key THEN None ELSE m.last[s]],
                        !.esc = Append(@, <<"FAULT", key, message>>)]
        m1 == announce(m0, "FAULT", key, message)
    IN  IF fault_mode = "exception" THEN Raise(m1, SensorFaultMsg(key, message)) ELSE m1

\* _handle_fault
handle_fault(m, key, message) ==
    LET m0 == [m EXCEPT !.status[key] =
                            [status |-> "FAULT", last_update |-> None, error |-> message],
                        !.esc = Append(@, <<"FAULT", key, message>>)]
        m1 == announce(m0, "FAULT", key, message)
    IN  IF fault_mode = "exception" THEN Raise(m1, SensorFaultMsg(key, message)) ELSE m1

\* _handle_warn that records the message and leaves the status as it is
handle_warn_keeps_status(m, key, message) ==
    LET m0 == [m EXCEPT !.status[key].error = message,
                        !.esc = Append(@, <<"WARN", key, message>>)]
        m1 == announce(m0, "WARN", key, message)
    IN  IF fault_mode = "exception" THEN Raise(m1, SensorFaultMsg(key, message)) ELSE m1

\* _handle_warn that never raises
handle_warn_never_raises(m, key, message) ==
    announce([m EXCEPT !.status[key] =
                           [status |-> "WARN", last_update |-> m.status[key].last_update,
                            error |-> message],
                       !.esc = Append(@, <<"WARN", key, message>>)],
             "WARN", key, message)

\* _handle_warn that sets the status and records no message
handle_warn_no_message(m, key, message) ==
    LET m0 == [m EXCEPT !.status[key] =
                            [status |-> "WARN", last_update |-> m.status[key].last_update,
                             error |-> NoError],
                        !.esc = Append(@, <<"WARN", key, message>>)]
        m1 == announce(m0, "WARN", key, message)
    IN  IF fault_mode = "exception" THEN Raise(m1, SensorFaultMsg(key, message)) ELSE m1

\* _handle_warn
handle_warn(m, key, message) ==
    LET m0 == [m EXCEPT !.status[key] =
                            [status |-> "WARN", last_update |-> m.status[key].last_update,
                             error |-> message],
                        !.esc = Append(@, <<"WARN", key, message>>)]
        m1 == announce(m0, "WARN", key, message)
    IN  IF fault_mode = "exception" THEN Raise(m1, SensorFaultMsg(key, message)) ELSE m1

\* an except clause that records the fault and then re-raises
except_read_error_reraises(b, key) ==
    IF b.raised THEN Raise(handle_fault(Caught(b), key, ReadErrorMsg(b.exc)), b.exc) ELSE b

\* "except Exception as e: self._handle_fault(key, f'Read error: {e}')" around a
\* try body that has produced b
except_read_error(b, key) ==
    IF b.raised THEN handle_fault(Caught(b), key, ReadErrorMsg(b.exc)) ELSE b

\* a success update that leaves the error field as it is
mark_success_keeps_error(m, key, now) ==
    [m EXCEPT !.last[key] = Some(now),
              !.status[key] = [status |-> "OK", last_update |-> Some(now),
                               error |-> m.status[key].error]]

\* the statements of a read block after the driver reads have returned:
\* self._last[key] = now; self._status[key].update(OK)
mark_success(m, key, now) ==
    [m EXCEPT !.last[key] = Some(now),
              !.status[key] = [status |-> "OK", last_update |-> Some(now), error |-> NoError]]

\* a BNO085 block that runs whether or not the driver attached
read_bno085_without_handle(m, now, in) ==
    IF m.raised THEN m
    ELSE LET m0 == [m EXCEPT !.trace = Append(@, "bno085")]
             body == IF in.raise > 0 THEN Raise(m0, DriverError)
                     ELSE mark_success(m0, "bno085", now)
         IN  except_read_error(body, "bno085")

\* update_all, the BNO085 block
read_bno085(m, now, in) ==
    IF m.raised \/ ~live["bno085"] THEN m
    ELSE LET m0 == [m EXCEPT !.trace = Append(@, "bno085")]
             body == IF in.raise > 0 THEN Raise(m0, DriverError)
                     ELSE mark_success(m0, "bno085", now)
         IN  except_read_error(body, "bno085")

\* an MPRLS block that checks the range first and does not smooth a sample
\* that is out of range
read_mprls_range_first(m, now, in) ==
    IF m.raised \/ ~live["mprls"] THEN m
    ELSE LET m0 == [m EXCEPT !.trace = Append(@, "mprls")]
             body ==
                 IF in.raise > 0 THEN Raise(m0, DriverError)
                 ELSE LET raw_p == in.v[1]
                          m1 == mark_success(m0, "mprls", now)
                      IN  IF ~InRange(pressure_min, raw_p, pressure_max)
                          THEN handle_warn(m1, "mprls", PressureMsg)
                          ELSE [m1 EXCEPT !.pressure_smooth =
                                              Some(smooth(m1.pressure_smooth, raw_p))]
         IN  except_read_error(body, "mprls")

\* an MPRLS block that checks the range of the smoothed pressure
read_mprls_checks_smoothed(m, now, in) ==
    IF m.raised \/ ~live["mprls"] THEN m
    ELSE LET m0 == [m EXCEPT !.trace = Append(@, "mprls")]
             body ==
                 IF in.raise > 0 THEN Raise(m0, DriverError)
                 ELSE LET raw_p == in.v[1]
                          m1 == mark_success(m0, "mprls", now)
                          m2 == [m1 EXCEPT !.pressure_smooth =
                                               Some(smooth(m1.pressure_smooth, raw_p))]
                      IN  IF ~InRange(pressure_min, m2.pressure_smooth[1], pressure_max)
                          THEN handle_warn(m2, "mprls", PressureMsg)
                          ELSE m2
         IN  except_read_error(body, "mprls")

\* an MPRLS block that forgets the smoothed pressure when the read raises
read_mprls_clears_on_error(m, now, in) ==
    IF m.raised \/ ~live["mprls"] THEN m
    ELSE LET m0 == [m EXCEPT !.trace = Append(@, "mprls")]
             body ==
                 IF in.raise > 0 THEN Raise([m0 EXCEPT !.pressure_smooth = None], DriverError)
                 ELSE LET raw_p == in.v[1]
                          m1 == mark_success(m0, "mprls", now)
                          m2 == [m1 EXCEPT !.pressure_smooth =
                                               Some(smooth(m1.pressure_smooth, raw_p))]
                      IN  IF ~InRange(pressure_min, raw_p, pressure_max)
                          THEN handle_warn(m2, "mprls", PressureMsg)
                          ELSE m2
         IN  except_read_error(body, "mprls")

\* update_all, the MPRLS block
read_mprls(m, now, in) ==
    IF m.raised \/ ~live["mprls"] THEN m
    ELSE LET m0 == [m EXCEPT !.trace = Append(@, "mprls")]
             body ==
                 IF in.raise > 0 THEN Raise(m0, DriverError)
                 ELSE LET raw_p == in.v[1]
                          m1 == mark_success(m0, "mprls", now)
                          m2 == [m1 EXCEPT !.pressure_smooth =
                                               Some(smooth(m1.pressure_smooth, raw_p))]
                      IN  IF ~InRange(pressure_min, raw_p, pressure_max)
                          THEN handle_warn(m2, "mprls", PressureMsg)
                          ELSE m2
         IN  except_read_error(body, "mprls")

\* an ADS1015 block that runs although an exception is propagating
read_ads1015_after_raise(m, now, in, key, c1, c2) ==
    IF ~live[key] THEN m
    ELSE LET m0 == [m EXCEPT !.trace = Append(@, key)]
         IN  IF in.raise # 0 THEN m0
             ELSE [mark_success(m0, key, now) EXCEPT
                       !.analog_smooth[c1] = Some(smooth(m.analog_smooth[c1], in.v[1])),
                       !.analog_smooth[c2] = Some(smooth(m.analog_smooth[c2], in.v[2]))]

\* an ADS1015 block that smooths the first channel before it reads the second
read_ads1015_smooths_as_read(m, now, in, key, c1, c2) ==
    IF m.raised \/ ~live[key] THEN m
    ELSE LET m0 == [m EXCEPT !.trace = Append(@, key)]
             body ==
                 IF in.raise = 1 THEN Raise(m0, DriverError)
                 ELSE LET v1 == in.v[1]
                          m2 == [m0 EXCEPT !.analog_smooth[c1] =
                                               Some(smooth(m0.analog_smooth[c1], v1))]
                      IN  IF in.raise = 2 THEN Raise(m2, DriverError)
                          ELSE LET v2 == in.v[2]
                                   m1 == mark_success(m2, key, now)
                                   m3 == [m1 EXCEPT !.analog_smooth[c2] =
                                                        Some(smooth(m1.analog_smooth[c2], v2))]
                                   m4 == IF ~InRange(volt_min, v1, volt_max)
                                         THEN handle_warn(m3, key, VoltageMsg(c1))
                                         ELSE m3
                               IN  IF m4.raised THEN m4
                                   ELSE IF ~InRange(volt_min, v2, volt_max)
                                        THEN handle_warn(m4, key, VoltageMsg(c2))
                                        ELSE m4
         IN  except_read_error(body, key)

\* update_all, an ADS1015 block: key is the bank, c1 and c2 its channels
read_ads1015(m, now, in, key, c1, c2) ==
    IF m.raised \/ ~live[key] THEN m
    ELSE LET m0 == [m EXCEPT !.trace = Append(@, key)]
             body ==
                 IF in.raise > 0 THEN Raise(m0, DriverError)
                 ELSE LET v1 == in.v[1]
                          v2 == in.v[2]
                          m1 == mark_success(m0, key, now)
                          m2 == [m1 EXCEPT !.analog_smooth[c1] =
                                               Some(smooth(m1.analog_smooth[c1], v1))]
                          m3 == [m2 EXCEPT !.analog_smooth[c2] =
                                               Some(smooth(m2.analog_smooth[c2], v2))]
                          m4 == IF ~InRange(volt_min, v1, volt_max)
                                THEN handle_warn(m3, key, VoltageMsg(c1))
                                ELSE m3
                      IN  IF m4.raised THEN m4
                          ELSE IF ~InRange(volt_min, v2, volt_max)
                               THEN handle_warn(m4, key, VoltageMsg(c2))
                               ELSE m4
         IN  except_read_error(body, key)

\* an altitude block that checks the range first and does not smooth an
\* altitude that is out of range
derive_altitude_range_first(m) ==
    IF m.raised \/ m.pressure_smooth = None THEN m
    ELSE LET alt == AltitudeOf(m.pressure_smooth[1])
             m1 == [m EXCEPT !.trace = Append(@, "altitude")]
         IN  IF ~InRange(alt_min, alt, alt_max) THEN handle_warn(m1, "mprls", AltitudeMsg)
             ELSE [m1 EXCEPT !.altitude_smooth = Some(smooth(m.altitude_smooth, alt))]

\* update_all, derived altitude
derive_altitude(m) ==
    IF m.raised \/ m.pressure_smooth = None THEN m
    ELSE LET alt == AltitudeOf(m.pressure_smooth[1])
             m1 == [m EXCEPT !.altitude_smooth = Some(smooth(m.altitude_smooth, alt)),
                             !.trace = Append(@, "altitude")]
         IN  IF ~InRange(alt_min, alt, alt_max)
             THEN handle_warn(m1, "mprls", AltitudeMsg)
             ELSE m1

\* a staleness test that is one second late
IsStale_late(m, key, now) == m.last[key] # None /\ now - m.last[key][1] > timeout + 1

\* a staleness test that fires once per episode: not for a device that was
\* already stale at the previous clock reading
IsStale_once(m, key, now) ==
    /\ m.last[key] # None
    /\ now - m.last[key][1] > timeout
    /\ ~(clock - m.last[key][1] > timeout)

\* whether _check_timeouts finds key stale at time now
IsStale(m, key, now) == m.last[key] # None /\ now - m.last[key][1] > timeout

\* _check_timeouts, the loop from position i of the key tuple on
RECURSIVE timeouts_from(_, _, _)
timeouts_from(m, now, i) ==
    IF i > Len(SensorOrder) \/ m.raised THEN m
    ELSE LET key == SensorOrder[i]
         IN  IF IsStale(m, key, now)
             THEN timeouts_from(handle_fault(m, key, StaleMsg), now, i + 1)
             ELSE timeouts_from(m, now, i + 1)

\* _check_timeouts; now2 is its own time.time()
check_timeouts(m, now2) ==
    IF m.raised THEN m
    ELSE timeouts_from([m EXCEPT !.trace = Append(@, "timeouts")], now2, 1)

\* the value of a one-element set (binds the result of a step before the next
\* step uses it)
Only(S) == CHOOSE x \in S : TRUE

\* an update_all that evaluates staleness before it derives the altitude
update_all_timeouts_first(m, now, now2, in) ==
    Only({derive_altitude(m5) :
          m5 \in {check_timeouts(m4, now2) :
          m4 \in {read_ads1015(m3, now, in["ads1015_2"], "ads1015_2", "sensor3", "sensor4") :
          m3 \in {read_ads1015(m2, now, in["ads1015_1"], "ads1015_1", "sensor1", "sensor2") :
          m2 \in {read_mprls(m1, now, in["mprls"]) :
          m1 \in {read_bno085(m, now, in["bno085"])}}}}}})

\* update_all: now is its time.time(), in[key] what the driver of key delivers
update_all(m, now, now2, in) ==
    Only({check_timeouts(m5, now2) :
          m5 \in {derive_altitude(m4) :
          m4 \in {read_ads1015(m3, now, in["ads1015_2"], "ads1015_2", "sensor3", "sensor4") :
          m3 \in {read_ads1015(m2, now, in["ads1015_1"], "ads1015_1", "sensor1", "sensor2") :
          m2 \in {read_mprls(m1, now, in["mprls"]) :
          m1 \in {read_bno085(m, now, in["bno085"])}}}}}})

----------------------------------------------------------------------------
(* Construction *)

Record(st, lu, er) == [status |-> st, last_update |-> lu, error |-> er]

\* __init__ up to the device initialisation; now is its time.time()
Fresh(now) ==
    [status |-> [k \in Keys |-> IF k = "i2c" THEN Record("UNKNOWN", Some(now), NoError)
                                ELSE Record("UNKNOWN", None, NoError)],
     last |-> [s \in Sensors |-> None],
     pressure_smooth |-> None,
     altitude_smooth |-> None,
     analog_smooth |-> [c \in Channels |-> None],
     raised |-> FALSE, exc |-> NoError, trace |-> <<>>, esc |-> <<>>,
     console |-> <<>>, logfile |-> <<>>]

\* _init_i2c; ok: the bus came up
init_i2c(m, ok, now) ==
    IF ok THEN [m EXCEPT !.status["i2c"] = Record("OK", Some(now), NoError),
                         !.trace = Append(@, "i2c")]
    ELSE handle_fault([m EXCEPT !.status["i2c"] = Record("FAULT", Some(now), DriverError),
                                !.trace = Append(@, "i2c")],
                      "i2c", "I2C initialization failed: " \o DriverError)

\* _init_bno085, _init_mprls and each half of _init_ads1015; ok: the driver attached
init_device(m, key, ok, now) ==
    IF m.raised THEN m
    ELSE IF ok THEN [m EXCEPT !.status[key] = Record("OK", Some(now), NoError),
                              !.trace = Append(@, key)]
    ELSE handle_fault([m EXCEPT !.status[key] = Record("MISSING", None, DriverError),
                                !.trace = Append(@, key)],
                      key, InitFailedMsg(key))

\* __init__, the try block around the initialisation and its handler
construct(i2c_ok, attach, now) ==
    LET m1 == init_i2c(Fresh(now), i2c_ok, now)
        m2 == init_device(m1, "bno085", attach["bno085"], now)
        m3 == init_device(m2, "mprls", attach["mprls"], now)
        m4 == init_device(m3, "ads1015_1", attach["ads1015_1"], now)
        m5 == init_device(m4, "ads1015_2", attach["ads1015_2"], now)
    IN  IF m5.raised THEN handle_fault(Caught(m5), "i2c", "I2C init error: " \o m5.exc)
        ELSE m5

Range(f) == {f[i] : i \in DOMAIN f}

NoInputs == [s \in Sensors |-> Skip]

\* no accessor has been called, or its result has been dropped
NoCall == [call |-> "none", result |-> FALSE, mapping |-> <<>>, aliases |-> {}]
\* _smooth has not been called on its own
NoFold == [fed |-> <<>>, out |-> <<>>]

\* the smoothing_factor arguments tried in SpecCtor: 0, 1, 1.2 and -0.2
SmoothingArgs == {<<0, SM_DEN>>, <<SM_DEN, SM_DEN>>, <<SM_DEN + 1, SM_DEN>>, <<-1, SM_DEN>>}
\* the fault_mode arguments tried in SpecCtor
ModeArgs == FaultModes \cup {"log"}

\* a validation that does not look at fault_mode
valid_config_any_mode(sm, mode) == 0 < sm[1] /\ sm[1] <= sm[2]

\* the two asserts of __init__
valid_config(sm, mode) ==
    /\ 0 < sm[1] /\ sm[1] <= sm[2]
    /\ mode \in FaultModes

\* there is no monitor object: no record, no handle, no value
NoMonitor ==
    /\ constructed = FALSE
    /\ live = [s \in Sensors |-> FALSE]
    /\ status = <<>>
    /\ last = <<>>
    /\ pressure_smooth = None
    /\ altitude_smooth = None
    /\ analog_smooth = <<>>

\* the handlers the logger "EFISensors" may have when __init__ begins: none in
\* a process that has not constructed a monitor; the console handler, or the
\* file and the console handler, left by a monitor constructed earlier in the
\* process with log_faults False or True
PriorHandlers == {{}, {"console"}, {"file", "console"}}

\* _setup_logger: handlers are added only to a logger that has none
setup_logger(lf, prior) ==
    IF prior = {} THEN (IF lf THEN {"file"} ELSE {}) \cup {"console"} ELSE prior

\* EFISSensors(smoothing_factor = sm, fault_mode = mode, log_faults = lf) at
\* time 1, in a process whose logger has the handlers prior, on a board where
\* the bus comes up or not (i2c_ok) and the drivers attach or not (attach)
ConstructWith(sm, mode, lf, prior, i2c_ok, attach) ==
    /\ SM = sm
    /\ fault_mode = mode
    /\ log_faults = lf
    /\ handlers = IF valid_config(sm, mode) THEN setup_logger(lf, prior) ELSE prior
    /\ clock = 1
    /\ ncycles = 0
    /\ ret = NoCall
    /\ fold = NoFold
    /\ IF ~valid_config(sm, mode)
       THEN /\ NoMonitor
            /\ cyc = [call |-> "__init__", now |-> None, now2 |-> None,
                      in |-> NoInputs, trace |-> <<>>, raised |-> TRUE,
                      exc |-> "AssertionError", esc |-> <<>>,
                      console |-> <<>>, logfile |-> <<>>]
       ELSE LET m == construct(i2c_ok, attach, 1)
            IN  /\ constructed = ~m.raised
                /\ live = [s \in Sensors |-> ~m.raised /\ attach[s]]
                /\ status = m.status
                /\ last = m.last
                /\ pressure_smooth = m.pressure_smooth
                /\ altitude_smooth = m.altitude_smooth
                /\ analog_smooth = m.analog_smooth
                /\ cyc = [call |-> "__init__", now |-> Some(1), now2 |-> None,
                          in |-> NoInputs, trace |-> m.trace, raised |-> m.raised,
                          exc |-> m.exc, esc |-> m.esc,
                          console |-> m.console, logfile |-> m.logfile]

\* the same with log_faults at its default, in a process that has not
\* constructed a monitor before
Construct(sm, mode, i2c_ok, attach) ==
    ConstructWith(sm, mode, LOG_FAULTS, {}, i2c_ok, attach)

\* construction with the default smoothing factor and a valid fault mode
Init ==
    \E mode \in FaultModes, i2c_ok \in BOOLEAN, attach \in [Sensors -> BOOLEAN] :
        Construct(<<SM_NUM, SM_DEN>>, mode, i2c_ok, attach)

\* construction with any of the arguments above
InitCtor ==
    \E sm \in SmoothingArgs, mode \in ModeArgs, i2c_ok \in BOOLEAN,
       attach \in [Sensors -> BOOLEAN] :
        Construct(sm, mode, i2c_ok, attach)

----------------------------------------------------------------------------
(* Operations *)

InputsOf(key) == IF live[key] THEN {Nominal(key)} \cup Faulty(key) ELSE {Skip}

\* one call of update_all by the main loop, which makes at most limit calls
Poll(limit) ==
    /\ constructed
    /\ ret.call = "none"
    /\ ncycles < limit
    /\ \E d \in Elapse, ib \in InputsOf("bno085"), ip \in InputsOf("mprls"),
          ia \in InputsOf("ads1015_1"), ic \in InputsOf("ads1015_2") :
        LET in == [s \in Sensors |->
                       CASE s = "bno085" -> ib [] s = "mprls" -> ip
                         [] s = "ads1015_1" -> ia [] OTHER -> ic]
        IN
        /\ Cardinality({s \in Sensors : in[s] \in Faulty(s)}) <= MaxFaulty
        /\ LET now == clock + d[1]
               now2 == now + d[2]
           IN  \E m \in {update_all(Self, now, now2, in)} :
               LET steps == Range(m.trace)
                   checked == "timeouts" \in steps
               IN  /\ status' = m.status
                   /\ last' = m.last
                   /\ pressure_smooth' = m.pressure_smooth
                   /\ altitude_smooth' = m.altitude_smooth
                   /\ analog_smooth' = m.analog_smooth
                   /\ clock' = IF checked THEN now2 ELSE now
                   /\ ncycles' = ncycles + 1
                   /\ cyc' = [call |-> "update_all", now |-> Some(now),
                              now2 |-> IF checked THEN Some(now2) ELSE None,
                              in |-> [s \in Sensors |-> IF s \in steps THEN in[s] ELSE Skip],
                              trace |-> m.trace, raised |-> m.raised, exc |-> m.exc,
                              esc |-> m.esc, console |-> m.console,
                              logfile |-> m.logfile]
    /\ UNCHANGED <<SM, fault_mode, log_faults, handlers, live, constructed, ret, fold>>

UpdateAll == Poll(MaxCycles)

Next == UpdateAll

Spec == Init /\ [][Next]_vars

\* the monitor constructed with valid and invalid arguments
SpecCtor == InitCtor /\ [][Next]_vars

\* the boards of SpecLog and SpecBaro: the BNO085 and the second ADS1015 do
\* not attach, the MPRLS and the first ADS1015 may; only the MPRLS attaches
AttachLog == {a \in [Sensors -> BOOLEAN] : ~a["bno085"] /\ ~a["ads1015_2"]}
AttachBaro == [s \in Sensors |-> s \in {"mprls", "ads1015_2"}]

\* construction with logging on or off, in a fresh process or after an
\* earlier monitor
InitLog ==
    \E lf \in BOOLEAN, prior \in PriorHandlers, mode \in FaultModes, i2c_ok \in BOOLEAN,
       attach \in AttachLog :
        ConstructWith(<<SM_NUM, SM_DEN>>, mode, lf, prior, i2c_ok, attach)

SpecLog == InitLog /\ [][Next]_vars

\* a monitor with the MPRLS and the second ADS1015, polled once more than
\* the others
InitBaro ==
    \E mode \in FaultModes, i2c_ok \in BOOLEAN :
        Construct(<<SM_NUM, SM_DEN>>, mode, i2c_ok, AttachBaro)

UpdateAllBaro == Poll(MaxCycles + 1)

SpecBaro == InitBaro /\ [][UpdateAllBaro]_vars

----------------------------------------------------------------------------
(* _smooth on its own *)

\* the smoothing factors _smooth is exercised with: the default and 1
FoldFactors == {<<SM_NUM, SM_DEN>>, <<SM_DEN, SM_DEN>>}
\* the samples given to it: pressures in hundredths of a hPa
Samples == {101325, 101200, 101150, 100000}

\* an object with self.SM set and nothing smoothed yet
InitSmooth ==
    \E sm \in FoldFactors :
        /\ SM = sm
        /\ fault_mode = "warn"
        /\ log_faults = LOG_FAULTS
        /\ handlers = {}
        /\ clock = 1
        /\ ncycles = 0
        /\ ret = NoCall
        /\ fold = NoFold
        /\ NoMonitor
        /\ cyc = [call |-> "_smooth", now |-> None, now2 |-> None, in |-> NoInputs,
                  trace |-> <<>>, raised |-> FALSE, exc |-> NoError, esc |-> <<>>,
                  console |-> <<>>, logfile |-> <<>>]

\* value = self._smooth(value, x), value being None before the first call
FoldSample ==
    /\ cyc.call = "_smooth"
    /\ Len(fold.fed) < MaxFold
    /\ \E x \in Samples :
           LET prev == IF fold.out = <<>> THEN None ELSE Some(fold.out[Len(fold.out)])
           IN  fold' = [fed |-> Append(fold.fed, x), out |-> Append(fold.out, smooth(prev, x))]
    /\ UNCHANGED <<SM, fault_mode, log_faults, handlers, live, constructed, status, last, pressure_smooth,
                   altitude_smooth, analog_smooth, clock, ncycles, cyc, ret>>

InitEMA == Init \/ InitSmooth

NextEMA == UpdateAll \/ FoldSample

\* the monitor, and beside it _smooth applied to sequences of samples
SpecEMA == InitEMA /\ [][NextEMA]_vars

----------------------------------------------------------------------------
(* Accessors *)

\* the keys of self._status in the order the dict was filled
StatusOrder == <<"bno085", "mprls", "ads1015_1", "ads1015_2", "i2c">>

\* an all_systems_ok that looks at the four sensors and not at the bus
all_systems_ok_sensors_only(m) ==
    \A s \in Sensors : m.status[s].status = "OK"

RECURSIVE all_ok_from(_, _)
\* the loop of all_systems_ok from the i-th item on
all_ok_from(m, i) ==
    IF i > Len(StatusOrder) THEN TRUE
    ELSE IF m.status[StatusOrder[i]].status # "OK" THEN FALSE
    ELSE all_ok_from(m, i + 1)

all_systems_ok(m) == all_ok_from(m, 1)

\* datetime.fromtimestamp(t).isoformat(), applied when last_update is truthy
isoformat(lu) == IF lu = None \/ lu[1] = 0 THEN lu ELSE <<"T", lu[1]>>

\* a get_status that hands out the monitor's own records (s = v)
get_status_returns_records(m) ==
    [call |-> "get_status", result |-> FALSE,
     mapping |-> [k \in Keys |-> [m.status[k] EXCEPT !.last_update = isoformat(@)]],
     aliases |-> Keys]

\* get_status: mapping is the dict returned; aliases are the keys whose entry
\* in it is the very record object the monitor holds (none: dict(v) is a new
\* dict, and so is status_copy)
get_status(m) ==
    [call |-> "get_status", result |-> FALSE,
     mapping |-> [k \in Keys |-> [m.status[k] EXCEPT !.last_update = isoformat(@)]],
     aliases |-> {}]

get_pressure_hpa(m) == m.pressure_smooth
get_altitude_m(m) == m.altitude_smooth
\* dict(self._analog_smooth)
get_analog_voltages(m) == [c \in Channels |-> m.analog_smooth[c]]

\* the caller asks all_systems_ok()
AllSystemsOk ==
    /\ constructed
    /\ ret.call = "none"
    /\ ret' = [NoCall EXCEPT !.call = "all_systems_ok", !.result = all_systems_ok(Self)]
    /\ UNCHANGED <<SM, fault_mode, log_faults, handlers, live, constructed, status, last, pressure_smooth,
                   altitude_smooth, analog_smooth, clock, ncycles, cyc, fold>>

\* the caller asks get_status()
GetStatus ==
    /\ constructed
    /\ ret.call = "none"
    /\ ret' = get_status(Self)
    /\ UNCHANGED <<SM, fault_mode, log_faults, handlers, live, constructed, status, last, pressure_smooth,
                   altitude_smooth, analog_smooth, clock, ncycles, cyc, fold>>

\* what the caller writes into a mapping it was given
Tampered == [status |-> "TAMPERED", last_update |-> None, error |-> "tampered"]

\* the caller writes into the mapping get_status returned: it replaces every
\* entry (whole) or assigns the fields of every entry (~whole); assigning the
\* fields of an entry that is the monitor's own record changes the monitor
MutateReturned ==
    /\ ret.call = "get_status"
    /\ \E whole \in BOOLEAN :
           /\ ret' = [ret EXCEPT !.call = "mutated",
                                 !.mapping = [k \in Keys |-> Tampered],
                                 !.aliases = IF whole THEN {} ELSE @]
           /\ status' = IF whole THEN status
                         ELSE [k \in Keys |-> IF k \in ret.aliases THEN Tampered
                                               ELSE status[k]]
    /\ UNCHANGED <<SM, fault_mode, log_faults, handlers, live, constructed, last, pressure_smooth,
                   altitude_smooth, analog_smooth, clock, ncycles, cyc, fold>>

\* the caller drops what it was given and goes on
Resume ==
    /\ ret.call # "none"
    /\ ret' = NoCall
    /\ UNCHANGED <<SM, fault_mode, log_faults, handlers, live, constructed, status, last, pressure_smooth,
                   altitude_smooth, analog_smooth, clock, ncycles, cyc, fold>>

NextObs == UpdateAll \/ AllSystemsOk \/ GetStatus \/ MutateReturned \/ Resume

\* the monitor polled and queried by its caller
SpecObs == Init /\ [][NextObs]_vars

----------------------------------------------------------------------------
(* Vocabulary of the properties *)

Called == cyc.call = "update_all"
Returned == Called /\ ~cyc.raised
SilentOrWarn == fault_mode \in {"silent", "warn"}
\* the read of key was attempted in the latest call and raised / returned
ReadRaised(key) == cyc.in[key].raise > 0
ReadOk(key) == cyc.in[key].raise = 0
ReadErrorMsgs ==
    {ReadErrorMsg(DriverError)}
    \cup {ReadErrorMsg(SensorFaultMsg(k, w)) :
              k \in Sensors,
              w \in {PressureMsg} \cup {VoltageMsg(c) : c \in Channels}}
OutOfRangeMsgs == {PressureMsg, AltitudeMsg} \cup {VoltageMsg(c) : c \in Channels}
\* the staleness step of the latest call ran and found key stale
FoundStale(key) ==
    /\ cyc.now2 # None
    /\ last[key] # None
    /\ cyc.now2[1] - last[key][1] > timeout

----------------------------------------------------------------------------
(* C1: in silent or warn mode, a sensor whose read raised during an         *)
(* update_all call has status FAULT, with an error that is neither absent   *)
(* nor a warning, when the call returns.                                    *)

C1_ReadFailureIsFault ==
    (SilentOrWarn /\ Returned) =>
        \A s \in Sensors :
            ReadRaised(s) =>
                /\ status[s].status = "FAULT"
                /\ status[s].error \in ReadErrorMsgs \cup {StaleMsg}

(* C2: a Warn or Fault transition never clears the last-success time held   *)
(* in a device's record (last_update).                                      *)

C2_LastUpdateKept ==
    [][\A s \in Sensors :
           (status[s].last_update # None /\ status'[s].status \in {"WARN", "FAULT"})
               => status'[s].last_update # None]_vars

(* C3: _last[sensor] changes only by a successful read of that sensor, to   *)
(* the cycle time; it never decreases and never returns to None.            *)

C3_LastOnlyBySuccess ==
    [][\A s \in Sensors :
           /\ last'[s] # last[s] => (cyc'.in[s].raise = 0 /\ last'[s] = cyc'.now)
           /\ last[s] # None => (last'[s] # None /\ last'[s][1] >= last[s][1])]_vars

\* a read failed, or succeeded out of range, or the sensor was found stale,
\* and the last-success time of an earlier call is still in place
C3_Witness ==
    /\ Called
    /\ \E s \in Sensors :
           /\ ReadRaised(s)
           /\ FoundStale(s)
           /\ last[s] # None
           /\ last[s][1] < cyc.now[1]
    /\ \E s \in Sensors : ReadOk(s) /\ status[s].status = "WARN" /\ last[s] = cyc.now

(* C4: when update_all returns, every sensor whose last successful read is  *)
(* older than the timeout at the staleness step has status FAULT with the   *)
(* staleness message.                                                       *)

C4_StaleIsFault ==
    Returned =>
        \A s \in Sensors :
            FoundStale(s) =>
                /\ status[s].status = "FAULT"
                /\ status[s].error = StaleMsg

\* a sensor read successfully in this very call, and one whose read raised,
\* are both found stale
C4_Witness ==
    /\ Returned
    /\ \E s \in Sensors : FoundStale(s) /\ ReadOk(s)
    /\ \E s \in Sensors : FoundStale(s) /\ ReadRaised(s)

----------------------------------------------------------------------------
(* Range vocabulary *)

AltitudeChecked == "altitude" \in Range(cyc.trace)
\* the read of key returned, and a value the latest call checked for it was
\* out of range
SampleOutOfRange(key) ==
    /\ ReadOk(key)
    /\ CASE key = "bno085" -> FALSE
         [] key = "mprls" -> ~InRange(pressure_min, cyc.in[key].v[1], pressure_max)
         [] OTHER -> \E i \in 1..2 : ~InRange(volt_min, cyc.in[key].v[i], volt_max)
AltitudeOutOfRange ==
    /\ AltitudeChecked
    /\ ~InRange(alt_min, AltitudeOf(pressure_smooth[1]), alt_max)
CheckedOutOfRange(key) ==
    /\ ReadOk(key)
    /\ SampleOutOfRange(key) \/ (key = "mprls" /\ AltitudeOutOfRange)

(* C5 as stated: in silent or warn mode, a sensor whose read succeeded with *)
(* a checked value out of range has status WARN with an out-of-range        *)
(* message when the call returns.                                           *)

C5_OutOfRangeIsWarn ==
    (SilentOrWarn /\ Returned) =>
        \A s \in Sensors :
            CheckedOutOfRange(s) =>
                /\ status[s].status = "WARN"
                /\ status[s].error \in OutOfRangeMsgs

(* C5 amended: the same, for a sensor the staleness step of that call does  *)
(* not find stale (the step runs on a later clock reading than the read).   *)

C5_OutOfRangeIsWarnUnlessStale ==
    (SilentOrWarn /\ Returned) =>
        \A s \in Sensors :
            (CheckedOutOfRange(s) /\ ~FoundStale(s)) =>
                /\ status[s].status = "WARN"
                /\ status[s].error \in OutOfRangeMsgs

\* the first channel of a bank is out of range, the second in range, and a
\* pressure reading gave an altitude out of range
C5_Witness ==
    /\ SilentOrWarn /\ Returned
    /\ \E s \in {"ads1015_1", "ads1015_2"} :
           /\ ReadOk(s) /\ ~FoundStale(s)
           /\ ~InRange(volt_min, cyc.in[s].v[1], volt_max)
           /\ InRange(volt_min, cyc.in[s].v[2], volt_max)
           /\ status[s].status = "WARN"
    /\ ReadOk("mprls") /\ AltitudeOutOfRange /\ status["mprls"].status = "WARN"

(* C6: a successful read with a value out of range sets the last-success    *)
(* time to the cycle time and folds the sample into the smoothed value; the *)
(* escalation that follows changes neither.                                 *)

C6_OutOfRangeStillSuccess ==
    [][cyc'.call = "update_all" =>
           /\ (cyc'.in["mprls"].raise = 0
                   /\ ~InRange(pressure_min, cyc'.in["mprls"].v[1], pressure_max))
               => /\ last'["mprls"] = cyc'.now
                  /\ pressure_smooth' = Some(smooth(pressure_smooth, cyc'.in["mprls"].v[1]))
           /\ \A b \in {<<"ads1015_1", "sensor1", "sensor2">>,
                        <<"ads1015_2", "sensor3", "sensor4">>} :
                  (cyc'.in[b[1]].raise = 0
                       /\ \E i \in 1..2 : ~InRange(volt_min, cyc'.in[b[1]].v[i], volt_max))
                  => /\ last'[b[1]] = cyc'.now
                     /\ analog_smooth'[b[2]] =
                            Some(smooth(analog_smooth[b[2]], cyc'.in[b[1]].v[1]))
                     /\ analog_smooth'[b[3]] =
                            Some(smooth(analog_smooth[b[3]], cyc'.in[b[1]].v[2]))]_vars

\* an out-of-range pressure has been folded into an earlier smoothed value
C6_Witness ==
    /\ Called
    /\ SampleOutOfRange("mprls")
    /\ last["mprls"] = cyc.now
    /\ pressure_smooth # None
    /\ pressure_smooth[1] # cyc.in["mprls"].v[1]
    /\ InRange(pressure_min, pressure_smooth[1], pressure_max)

(* C7 as stated: a call in which a sensor's read succeeds with every        *)
(* checked value in range leaves it OK, with no error and the last-success  *)
(* time equal to the cycle time, whatever its status was before.            *)

C9_ExceptionModeRaises ==
    (fault_mode = "exception" /\ Called) =>
        /\ (\E s \in Sensors : ReadRaised(s) \/ CheckedOutOfRange(s) \/ FoundStale(s))
               => cyc.raised
        /\ cyc.esc # <<>> => cyc.raised
        /\ cyc.raised =>
               LET k == cyc.esc[Len(cyc.esc)][2]
               IN  /\ status[k].status \in {"WARN", "FAULT"}
                   /\ status[k].error # NoError

\* every read succeeded in range and the staleness step made the call raise,
\* with the stale sensor's record already FAULT
C9_Witness ==
    /\ fault_mode = "exception" /\ Called /\ cyc.raised
    /\ \A s \in Sensors : ReadOk(s) /\ ~CheckedOutOfRange(s)
    /\ \E s \in Sensors : FoundStale(s) /\ status[s] = Record("FAULT", None, StaleMsg)

(* C10: in exception mode a successful read with pressure or voltage out   *)
(* of range leaves the record WARN with the out-of-range message when the   *)
(* call raises.                                                             *)

C10_RangeViolationIsWarn ==
    (fault_mode = "exception" /\ Called /\ cyc.raised) =>
        \A s \in Sensors :
            SampleOutOfRange(s) =>
                /\ status[s].status = "WARN"
                /\ status[s].error \in OutOfRangeMsgs

(* C11: after construction in silent or warn mode a sensor whose driver     *)
(* failed to attach has status MISSING, and keeps it for the monitor's      *)
(* lifetime.                                                                *)

C11_AttachFailureIsMissing ==
    (SilentOrWarn /\ constructed) =>
        \A s \in Sensors : ~live[s] => status[s].status = "MISSING"

(* C12: after construction and before the first update_all every sensor    *)
(* whose driver attached has status UNKNOWN, so all_systems_ok() is False   *)
(* before the first poll.                                                   *)

C12_UnknownBeforeFirstPoll ==
    (constructed /\ ncycles = 0) =>
        /\ \A s \in Sensors : live[s] => status[s].status = "UNKNOWN"
        /\ ~all_systems_ok(Self)

(* C13: a sensor whose driver failed to attach is never read by update_all; *)
(* no update_all call changes its record, its last-success time or its      *)
(* smoothed values; and no update_all call sets a status to MISSING.        *)

SmoothedOf(key) ==
    CASE key = "mprls" -> <<pressure_smooth, altitude_smooth>>
      [] key = "ads1015_1" -> <<analog_smooth["sensor1"], analog_smooth["sensor2"]>>
      [] key = "ads1015_2" -> <<analog_smooth["sensor3"], analog_smooth["sensor4"]>>
      [] OTHER -> <<>>

C13_UnattachedUntouched ==
    [][/\ \A s \in Sensors :
              ~live[s] =>
                  /\ s \notin Range(cyc'.trace)
                  /\ status'[s] = status[s]
                  /\ last'[s] = last[s]
                  /\ SmoothedOf(s)' = SmoothedOf(s)
       /\ \A k \in Keys :
              status'[k].status = "MISSING" => status[k].status = "MISSING"]_vars

\* two calls made with the MPRLS and the first ADS1015 unattached: the BNO085
\* was read, a second ADS1015 read raised, and both unattached sensors still
\* have the record and the empty values construction left
C13_Witness ==
    /\ Called /\ ncycles >= 2
    /\ ~live["mprls"] /\ ~live["ads1015_1"] /\ live["bno085"] /\ live["ads1015_2"]
    /\ ReadOk("bno085") /\ ReadRaised("ads1015_2")
    /\ \A s \in {"mprls", "ads1015_1"} :
           /\ status[s] = Record("FAULT", None, InitFailedMsg(s))
           /\ last[s] = None
    /\ pressure_smooth = None /\ analog_smooth["sensor1"] = None

(* C15: each smoothed accessor returns None until the first successful read *)
(* of its source (the MPRLS for pressure and altitude, its ADS1015 bank for *)
(* a voltage); failed reads and calls with no live driver leave it None.    *)

C15_NoneUntilFirstSuccess ==
    constructed =>
        /\ last["mprls"] = None =>
               get_pressure_hpa(Self) = None /\ get_altitude_m(Self) = None
        /\ last["ads1015_1"] = None =>
               /\ get_analog_voltages(Self)["sensor1"] = None
               /\ get_analog_voltages(Self)["sensor2"] = None
        /\ last["ads1015_2"] = None =>
               /\ get_analog_voltages(Self)["sensor3"] = None
               /\ get_analog_voltages(Self)["sensor4"] = None

\* after two calls: the second ADS1015 raised on its second channel and has
\* never been read with success, the first ADS1015 is unattached, the MPRLS
\* has been read; the four voltages are None and the pressure is not
C15_Witness ==
    /\ Called /\ ncycles >= 2
    /\ live["ads1015_2"] /\ cyc.in["ads1015_2"].raise = 2 /\ last["ads1015_2"] = None
    /\ ~live["ads1015_1"]
    /\ \A c \in Channels : get_analog_voltages(Self)[c] = None
    /\ last["mprls"] # None /\ get_pressure_hpa(Self) # None

(* C16 as stated, for the pressure and the altitude: the warning is raised  *)
(* exactly when the stored smoothed value, after the new sample is folded   *)
(* in, lies outside the configured bounds.                                  *)

Warned(key, message) == <<"WARN", key, message>> \in Range(cyc.esc)

C16_WarnOnSmoothedValue ==
    Called =>
        /\ ReadOk("mprls") =>
               (Warned("mprls", PressureMsg)
                    <=> ~InRange(pressure_min, pressure_smooth[1], pressure_max))
        /\ AltitudeChecked =>
               (Warned("mprls", AltitudeMsg)
                    <=> ~InRange(alt_min, altitude_smooth[1], alt_max))

(* C16: the range check is applied to the sample read, not to the smoothed  *)
(* value: the pressure or voltage warning is raised exactly when the read   *)
(* succeeded and the raw sample is out of bounds (for the second channel of *)
(* a bank in exception mode: and the first channel's warning did not abort  *)
(* the call), the altitude warning exactly when the altitude derived from   *)
(* the smoothed pressure, before it is smoothed, is out of bounds.          *)

C16_WarnOnRawSample ==
    Called =>
        /\ Warned("mprls", PressureMsg)
               <=> (ReadOk("mprls")
                    /\ ~InRange(pressure_min, cyc.in["mprls"].v[1], pressure_max))
        /\ \A b \in {<<"ads1015_1", "sensor1", "sensor2">>,
                     <<"ads1015_2", "sensor3", "sensor4">>} :
               /\ Warned(b[1], VoltageMsg(b[2]))
                      <=> (ReadOk(b[1]) /\ ~InRange(volt_min, cyc.in[b[1]].v[1], volt_max))
               /\ Warned(b[1], VoltageMsg(b[3]))
                      <=> /\ ReadOk(b[1])
                          /\ ~InRange(volt_min, cyc.in[b[1]].v[2], volt_max)
                          /\ ~(fault_mode = "exception" /\ Warned(b[1], VoltageMsg(b[2])))
        /\ Warned("mprls", AltitudeMsg)
               <=> (AltitudeChecked
                    /\ ~InRange(alt_min, AltitudeOf(pressure_smooth[1]), alt_max))

\* a sample out of range folded into an earlier one in range: the pressure
\* warning is raised although the smoothed pressure is within bounds
C16_Witness ==
    /\ Called /\ ReadOk("mprls")
    /\ ~InRange(pressure_min, cyc.in["mprls"].v[1], pressure_max)
    /\ InRange(pressure_min, pressure_smooth[1], pressure_max)
    /\ pressure_smooth[1] # cyc.in["mprls"].v[1]
    /\ Warned("mprls", PressureMsg)
    /\ status["mprls"].status = "WARN"

(* C20: within one update_all call the steps run in a fixed order: the      *)
(* reads of bno085, mprls, ads1015_1, ads1015_2, each live sensor at most   *)
(* once, then the derived altitude, and the staleness evaluation last.      *)

StepOrder == <<"bno085", "mprls", "ads1015_1", "ads1015_2", "altitude", "timeouts">>
StepPos(x) == CHOOSE i \in DOMAIN StepOrder : StepOrder[i] = x

C20_FixedOrder ==
    Called =>
        /\ \A i, j \in DOMAIN cyc.trace :
               i < j => StepPos(cyc.trace[i]) < StepPos(cyc.trace[j])
        /\ \A s \in Sensors : s \in Range(cyc.trace) => live[s]
        /\ Returned =>
               /\ \A s \in Sensors : live[s] => s \in Range(cyc.trace)
               /\ cyc.trace[Len(cyc.trace)] = "timeouts"
               /\ pressure_smooth # None => AltitudeChecked

\* a call that returned after all six steps ran
C20_Witness ==
    /\ Returned /\ ncycles >= 2
    /\ cyc.trace = StepOrder

(* C17 as stated, its example: the samples 1013.25, 1012.0, 1011.5 smoothed *)
(* with factor 0.2 give 1013.25, 1012.75, 1012.50.                          *)

C17_ExampleAsStated ==
    (SM = <<1, 5>> /\ fold.fed = <<101325, 101200, 101150>>) =>
        fold.out = <<101325, 101275, 101250>>

(* C17: _smooth(prev, new) is new when prev is None and otherwise           *)
(* SM*new + (1-SM)*prev; a successful MPRLS read folds its sample into the  *)
(* smoothed pressure and a failed or absent read leaves it as it was; the   *)
(* samples 1013.25, 1012.0, 1011.5 with factor 0.2 give 1013.25, 1013.00,   *)
(* 1012.70; with factor 1 the smoothed value is always the latest sample.   *)

FoldIsEMA ==
    /\ Len(fold.out) = Len(fold.fed)
    /\ \A i \in DOMAIN fold.fed :
           fold.out[i] = IF i = 1 THEN fold.fed[1]
                         ELSE (SM[1] * fold.fed[i] + (SM[2] - SM[1]) * fold.out[i - 1])
                                  \div SM[2]
    /\ (SM = <<1, 5>> /\ fold.fed = <<101325, 101200, 101150>>) =>
           fold.out = <<101325, 101300, 101270>>
    /\ SM[1] = SM[2] => fold.out = fold.fed

PressureFolds ==
    cyc'.call = "update_all" =>
        pressure_smooth' =
            IF cyc'.in["mprls"].raise # 0 THEN pressure_smooth
            ELSE IF pressure_smooth = None THEN Some(cyc'.in["mprls"].v[1])
            ELSE Some((SM[1] * cyc'.in["mprls"].v[1] + (SM[2] - SM[1]) * pressure_smooth[1])
                          \div SM[2])

C17_SmoothIsEMAFold == []FoldIsEMA /\ [][PressureFolds]_vars

\* the three samples of the example have been smoothed with factor 0.2
C17_Witness ==
    /\ SM = <<1, 5>>
    /\ fold.fed = <<101325, 101200, 101150>>
    /\ fold.out = <<101325, 101300, 101270>>

(* C18: constructing the monitor with smoothing_factor outside (0, 1] or    *)
(* with a fault_mode other than silent, warn or exception fails before any  *)
(* device attach is attempted and before any record is created;             *)
(* smoothing_factor exactly 1 is accepted.                                  *)

AnswerIsAllOk ==
    ret.call = "all_systems_ok" =>
        (ret.result <=> (\A k \in Keys : status[k].status = "OK"))

AnswerChangesNothing ==
    ret'.call = "all_systems_ok" =>
        UNCHANGED <<SM, fault_mode, log_faults, handlers, live, status, last, pressure_smooth,
                    altitude_smooth, analog_smooth>>

C14_AllOkIffEveryRecordOk == []AnswerIsAllOk /\ [][AnswerChangesNothing]_vars

\* after a call of update_all the four sensors are OK and the bus is FAULT:
\* the answer is False
C14_Witness ==
    /\ ret.call = "all_systems_ok" /\ ~ret.result
    /\ Called
    /\ \A s \in Sensors : status[s].status = "OK"
    /\ status["i2c"].status = "FAULT"

(* C19: the mapping get_status() returns is an independent copy: writing    *)
(* into it or into one of its entries changes nothing in the monitor, and   *)
(* get_status() and all_systems_ok() answer afterwards as before.           *)

C19_StatusCopyIndependent ==
    [][ret'.call = "mutated" =>
           /\ status' = status
           /\ get_status(Self)' = get_status(Self)
           /\ all_systems_ok(Self)' = all_systems_ok(Self)
           /\ UNCHANGED <<last, pressure_smooth, altitude_smooth, analog_smooth>>]_vars

\* the caller has overwritten the entries of a mapping returned after a call
\* of update_all; the monitor still reports OK for the MPRLS
C19_Witness ==
    /\ ret.call = "mutated" /\ Called
    /\ ret.mapping["mprls"] = Tampered
    /\ "mprls" \notin ret.aliases
    /\ status["mprls"].status = "OK"
    /\ get_status(Self).mapping["mprls"].status = "OK"

(* C21: in silent fault mode an escalation writes nothing to the console;   *)
(* its only effects are the record update and, when log_faults, the line    *)
(* in the fault log file.                                                   *)

C21_SilentWritesNoConsole ==
    fault_mode = "silent" => cyc.console = <<>>

(* C22: when log_faults is true every escalation appends a line naming the  *)
(* device and the message to the fault log file, in all three fault modes   *)
(* and before the raise; when log_faults is false none does.                *)

C22_LoggedIffLogFaults ==
    /\ log_faults =>
           /\ Len(cyc.logfile) = Len(cyc.esc)
           /\ \A i \in DOMAIN cyc.esc :
                  cyc.logfile[i][2] = SensorFaultMsg(cyc.esc[i][2], cyc.esc[i][3])
    /\ ~log_faults => cyc.logfile = <<>>

(* C23: once a sensor is stale, every later update_all call that reaches    *)
(* the staleness step escalates a staleness fault for it again, once per    *)
(* call, unless a read of the sensor succeeds in that call.                 *)

StaleNow(key) == last[key] # None /\ clock - last[key][1] > timeout
StaleEscalations(c, key) ==
    Cardinality({i \in DOMAIN c.esc : c.esc[i] = <<"FAULT", key, StaleMsg>>})

C23_StaleEscalatesEveryCycle ==
    [][\A s \in Sensors :
           (/\ StaleNow(s)
            /\ "timeouts" \in Range(cyc'.trace)
            /\ cyc'.in[s].raise # 0)
               => /\ StaleEscalations(cyc', s) = 1
                  /\ status'[s] = Record("FAULT", None, StaleMsg)]_vars

\* second call: the MPRLS was read at time 2 and found stale at time 5 in the
\* first call; its read raises in the second, and it is escalated stale again
C23_Witness ==
    /\ Called /\ ncycles = 2
    /\ last["mprls"] = Some(2) /\ cyc.now[1] >= 6
    /\ ReadRaised("mprls")
    /\ StaleEscalations(cyc, "mprls") = 1
    /\ status["mprls"] = Record("FAULT", None, StaleMsg)

(* C24: a driver attach failure during construction is handled through      *)
(* status and logging only, in every fault mode: the constructor does not   *)
(* raise, it still attempts the remaining devices, and it marks only the    *)
(* failing device's record, not the bus record.                             *)

AttachFailed(key) == <<"FAULT", key, InitFailedMsg(key)>> \in Range(cyc.esc)
BusCameUp == \A i \in DOMAIN cyc.esc : cyc.esc[i][3] # "I2C initialization failed: " \o DriverError

C24_AttachFailureDoesNotRaise ==
    (cyc.call = "__init__" /\ \E s \in Sensors : AttachFailed(s)) =>
        /\ ~cyc.raised
        /\ \A s \in Sensors : s \in Range(cyc.trace)
        /\ BusCameUp => status["i2c"].status = "OK"

(* C25: a sensor is not reported OK for longer than the staleness timeout   *)
(* after its last successful read: at any time, also between update_all     *)
(* calls, status OK implies that the time since the last successful read is *)
(* at most sensor_timeout_s.  Stated at the moment the next update_all      *)
(* reads the clock, when the records are still those the previous call left.*)

C25_OkWithinTimeout ==
    [][cyc'.call = "update_all" =>
           \A s \in Sensors :
               (status[s].status = "OK" /\ last[s] # None)
                   => cyc'.now[1] - last[s][1] <= timeout]_vars

(* C26 as stated: when update_all raises in exception mode while handling   *)
(* a sensor, the records, last-success times and smoothed values of every   *)
(* sensor later in the poll order are as before the call, the altitude is   *)
(* not recomputed and staleness is not evaluated.                           *)

SensorPos(key) == CHOOSE i \in DOMAIN SensorOrder : SensorOrder[i] = key
LaterUntouched(key) ==
    \A s \in Sensors :
        SensorPos(s) > SensorPos(key) =>
            /\ status'[s] = status[s]
            /\ last'[s] = last[s]
            /\ SmoothedOf(s)' = SmoothedOf(s)
Handled(c) == c.esc[Len(c.esc)][2]

C26_RaiseEndsCall ==
    [][(cyc'.call = "update_all" /\ cyc'.raised) =>
           /\ LaterUntouched(Handled(cyc'))
           /\ "altitude" \notin Range(cyc'.trace)
           /\ "timeouts" \notin Range(cyc'.trace)]_vars

(* C26: when update_all raises in exception mode inside the read block of   *)
(* a sensor (its read raised, or its sample was out of range), the call     *)
(* ends there: every sensor later in the poll order is left as before the   *)
(* call, the altitude is not recomputed and staleness is not evaluated.     *)
(* A raise from the altitude check or from the staleness step comes after   *)
(* all the reads.                                                           *)

RaisedInBlock(c) == c.trace[Len(c.trace)] \in Sensors

C26_RaiseInReadEndsCall ==
    [][(cyc'.call = "update_all" /\ cyc'.raised) =>
           IF RaisedInBlock(cyc')
           THEN /\ Handled(cyc') = cyc'.trace[Len(cyc'.trace)]
                /\ LaterUntouched(Handled(cyc'))
                /\ altitude_smooth' = altitude_smooth
                /\ "altitude" \notin Range(cyc'.trace)
                /\ "timeouts" \notin Range(cyc'.trace)
           ELSE \A s \in Sensors : live[s] => cyc'.in[s].raise = 0]_vars

\* the second call raised in the MPRLS block; the first ADS1015, read in the
\* first call, was not reached and keeps the values of that call
C26_Witness ==
    /\ fault_mode = "exception" /\ Called /\ cyc.raised /\ ncycles >= 2
    /\ cyc.trace = <<"bno085", "mprls">>
    /\ live["ads1015_1"] /\ last["ads1015_1"] # None /\ last["ads1015_1"][1] < cyc.now[1]
    /\ status["ads1015_1"].status = "OK"
    /\ analog_smooth["sensor1"] # None

(* C28: each record's error is consistent with its status: OK or UNKNOWN    *)
(* with error None; WARN, FAULT or MISSING with a non-empty message; the    *)
(* status is one of UNKNOWN, OK, WARN, FAULT, MISSING; the records are      *)
(* exactly the five created at construction.                                *)

C28_ErrorMatchesStatus ==
    /\ DOMAIN status = {"bno085", "mprls", "ads1015_1", "ads1015_2", "i2c"}
    /\ \A k \in DOMAIN status :
           /\ status[k].status \in {"UNKNOWN", "OK", "WARN", "FAULT", "MISSING"}
           /\ status[k].status \in {"OK", "UNKNOWN"} => status[k].error = "None"
           /\ status[k].status \in {"WARN", "FAULT", "MISSING"}
                  => status[k].error \notin {"None", ""}

\* after two calls a record is OK, one is WARN and one is FAULT
C28_Witness ==
    /\ Called /\ ncycles >= 2
    /\ \E a, b, c \in Sensors :
           /\ status[a].status = "OK" /\ ReadOk(a)
           /\ status[b].status = "WARN" /\ status[b].error \in OutOfRangeMsgs
           /\ status[c].status = "FAULT" /\ status[c].error \in ReadErrorMsgs

(* C29: the smoothed altitude is non-None only if the smoothed pressure is; *)
(* after an update_all call that returns, the two are non-None together;    *)
(* a smoothed value that has become non-None is never set back to None.     *)

AltitudeNeedsPressure ==
    /\ altitude_smooth # None => pressure_smooth # None
    /\ Returned => (pressure_smooth # None <=> altitude_smooth # None)

NeverBackToNone ==
    /\ pressure_smooth # None => pressure_smooth' # None
    /\ altitude_smooth # None => altitude_smooth' # None
    /\ \A c \in Channels : analog_smooth[c] # None => analog_smooth'[c] # None

C29_SmoothedValuesStay == []AltitudeNeedsPressure /\ [][NeverBackToNone]_vars

\* a call that returned after the MPRLS read raised: pressure and altitude
\* are still there; the first sample had been out of altitude range
C29_Witness ==
    /\ Returned /\ ncycles >= 2
    /\ ReadRaised("mprls")
    /\ pressure_smooth # None /\ altitude_smooth # None
    /\ ~InRange(alt_min, altitude_smooth[1], alt_max)

(* C27 as stated: in an update_all call where a sensor's read raises, the   *)
(* smoothed quantities derived from that sensor do not change: smoothed     *)
(* pressure and smoothed altitude for the MPRLS, both channels for an ADS   *)
(* bank.                                                                    *)

ReadRaises(c, key) == key \in Range(c.trace) /\ c.in[key].raise > 0
BankKept(c1, c2) == analog_smooth'[c1] = analog_smooth[c1] /\ analog_smooth'[c2] = analog_smooth[c2]
BanksKept ==
    /\ ReadRaises(cyc', "ads1015_1") => BankKept("sensor1", "sensor2")
    /\ ReadRaises(cyc', "ads1015_2") => BankKept("sensor3", "sensor4")

C27_FailedReadKeepsSmoothed ==
    [][cyc'.call = "update_all" =>
           /\ ReadRaises(cyc', "mprls") => /\ pressure_smooth' = pressure_smooth
                                           /\ altitude_smooth' = altitude_smooth
           /\ BanksKept]_vars

(* C27: in an update_all call where a sensor's read raises, the smoothed    *)
(* pressure (MPRLS) and both channel values (ADS bank, also when the first  *)
(* channel was read and the second raised) stay as they were. The smoothed  *)
(* altitude is not kept: when the call reaches the altitude step it is      *)
(* smoothed once more toward the altitude of the unchanged smoothed         *)
(* pressure, and it stays as it was only when that step is not reached.     *)

AltitudeStep(c) == "altitude" \in Range(c.trace)

C27_FailedReadKeepsOwnSmoothed ==
    [][cyc'.call = "update_all" =>
           /\ ReadRaises(cyc', "mprls") =>
                  /\ pressure_smooth' = pressure_smooth
                  /\ altitude_smooth' =
                         IF AltitudeStep(cyc')
                         THEN Some(smooth(altitude_smooth, AltitudeOf(pressure_smooth[1])))
                         ELSE altitude_smooth
           /\ BanksKept]_vars

\* the third call: the MPRLS read raised after the samples 1000 and 1110; the
\* altitude moved, the pressure did not
C27_Witness ==
    /\ Called /\ ncycles = 3 /\ ~cyc.raised
    /\ ReadRaises(cyc, "mprls")
    /\ AltitudeStep(cyc)
    /\ pressure_smooth = Some(1022)
    /\ altitude_smooth # None
    /\ altitude_smooth # Some(smooth(Some(111), AltitudeOf(1022)))
    /\ analog_smooth["sensor3"] # None /\ analog_smooth["sensor4"] # None

====
